---- MODULE Spec2Model ----
(***************************************************************************)
(* The eth-connector of aurora-engine (src/src/connector.rs): deposits     *)
(* that are verified by an external prover and finalized in a callback,    *)
(* withdrawals, the used-proof markers and the contract's storage; and the *)
(* address type (src/engine-types/src/types_new/address.rs) with its       *)
(* decoding, serialization and hex encoding.                               *)
(*                                                                         *)
(* One action is one invocation of the contract.  An invocation runs alone *)
(* (the host executes one call at a time); its writes to storage and the   *)
(* promises it creates take effect where the code issues them, and a panic *)
(* ends the invocation at that point.                                      *)
(***************************************************************************)
EXTENDS Integers, Sequences, FiniteSets, Bags, TLC

VARIABLES storage, promises, last, overflow_checks, codec

vars == <<storage, promises, last, overflow_checks, codec>>

(***************************************************************************)
(* Bounds of the model.                                                    *)
(***************************************************************************)
\* Balance is u128 in the code; the model keeps the wrap-around at a small width.
BalanceLimit == 4
\* Largest amount or fee an event, a withdrawal or an engine call carries.
MaxAmount == 1
\* Deposits are submitted while fewer than this many verification requests
\* are outstanding or proofs recorded.
MaxDeposits == 2
\* Byte slices handed to the address decoder are at most this long.
MaxSliceLen == 21

(***************************************************************************)
(* Program constants and the values the inputs are drawn from.             *)
(***************************************************************************)
CONTRACT_NAME_KEY == <<"EthConnector">>
CONTRACT_FT_KEY == <<"EthConnector", "ft">>

current_account_id == "aurora"
AccountIds == {"aurora", "alice"}
ProverAccounts == {"prover"}
EthAddresses == {"A1", "A2"}
Amounts == 0 .. MaxAmount
NoRelayer == "none"
OK == "ok"

\* Hex texts of addresses appear as "a1" and "a2"; the text "zz" is no address.

\* Recipient messages: sequences of characters, ":" being the delimiter and
\* every other element standing for a run of non-delimiter characters.
Messages ==
    { <<"alice">>,
      <<"c", ":", "a1">>,
      <<"c", ":", "a1", ":", "x">> }

Events ==
    [eth_custodian_address : EthAddresses, recipient : Messages,
     amount : Amounts, fee : Amounts]

Proofs == [log_entry_data : Events]

(***************************************************************************)
(* Host primitives (crate::sdk) and decoding helpers.                      *)
(***************************************************************************)
\* sdk::storage_has_key
storage_has_key(st, key) == key \in DOMAIN st

\* sdk::save_contract: the value is written under the key when it is called.
sdk_save_contract(st, key, value) ==
    [k \in DOMAIN st \cup {key} |-> IF k = key THEN value ELSE st[k]]

\* sdk::assert_private_call: the predecessor is the contract itself.
assert_private_call(predecessor) == predecessor = current_account_id

\* prover::validate_eth_address: a hex text decoded to an address; "invalid"
\* stands for the panic on a text that is no 20-byte address.
validate_eth_address(text) ==
    CASE text = "a1" -> "A1"
      [] text = "a2" -> "A2"
      [] OTHER -> "invalid"

\* str::split(':') as Rust computes it: k delimiters give k + 1 parts.
RECURSIVE split(_)
split(message) ==
    IF \A i \in 1 .. Len(message) : message[i] # ":"
    THEN <<message>>
    ELSE LET i == CHOOSE j \in 1 .. Len(message) :
                     /\ message[j] = ":"
                     /\ \A k \in 1 .. j - 1 : message[k] # ":"
         IN <<SubSeq(message, 1, i - 1)>> \o split(SubSeq(message, i + 1, Len(message)))

\* The text of one part of a split message.
text_of(part) == IF part = <<>> THEN "" ELSE part[1]

\* DepositedEvent::from_log_entry_data
from_log_entry_data(log_entry_data) == log_entry_data

\* Proof::get_key: the fingerprint of a proof, a function of its content.
get_key(proof) == proof.log_entry_data

\* a - b on u128: a panic when the build checks overflow, the wrapped value otherwise.
sub_balance(a, b) ==
    IF a >= b THEN [err |-> OK, value |-> a - b]
    ELSE IF overflow_checks THEN [err |-> "attempt to subtract with overflow", value |-> 0]
    ELSE [err |-> OK, value |-> (a - b) % BalanceLimit]

\* prover::verify_withdraw_eip712: the signature recovers to sender over the
\* canonical message (sender, recipient, custodian, amount).
withdraw_message(sender, eth_recipient, custodian, amount) ==
    [sender |-> sender, eth_recipient |-> eth_recipient,
     eth_custodian_address |-> custodian, amount |-> amount]

verify_withdraw_eip712(sender, eth_recipient, custodian, amount, eip712_signature) ==
    /\ eip712_signature.message = withdraw_message(sender, eth_recipient, custodian, amount)
    /\ eip712_signature.signer = sender

(***************************************************************************)
(* Address (src/engine-types/src/types_new/address.rs): a 20-byte H160 in  *)
(* a tuple struct.  Bytes are numbers 0 .. 255, slices are sequences of    *)
(* bytes, and an outcome is the error (OK for a value) and the value.      *)
(***************************************************************************)
\* The length of an H160, which deserialize compares the slice length with.
H160_len_bytes == 20

\* error::AddressLengthError as its bytes read (as_ref).
AddressLengthError == "ERR_WRONG_ADDRESS_LENGTH"

\* io::Error::new(io::ErrorKind::Other, format!("{}", error::AddressLengthError))
AddressLengthIoError == "io::Error(Other): ERR_WRONG_ADDRESS_LENGTH"

\* The panic of H160::from_slice on a slice of another length than the type's.
H160Panic == "panic: assertion failed: src.len() == Self::len_bytes()"

H160_from_slice(src) ==
    IF Len(src) = H160_len_bytes
    THEN [err |-> OK, value |-> src]
    ELSE [err |-> H160Panic, value |-> <<>>]

\* Address(H160): a tuple struct of one field.
Address_new(val) == <<val>>

Address_as_bytes(self) == self[1]

\* hex::encode: two lower-case digits for every byte, high nibble first.
HexChars ==
    <<"0", "1", "2", "3", "4", "5", "6", "7", "8", "9", "a", "b", "c", "d", "e", "f">>

hex_encode(bytes) ==
    [i \in 1 .. 2 * Len(bytes) |->
        LET b == bytes[(i + 1) \div 2]
        IN HexChars[(IF i % 2 = 1 THEN b \div 16 ELSE b % 16) + 1]]

Address_encode(self) == hex_encode(Address_as_bytes(self))

\* BorshSerialize: writer.write_all(self.0.as_bytes())
Address_serialize(self) == [err |-> OK, value |-> Address_as_bytes(self)]

\* deserialize accepting every slice of at least the length of an H160.
Address_deserialize_at_least(buf) ==
    IF Len(buf) < H160_len_bytes
    THEN [err |-> AddressLengthIoError, value |-> <<>>]
    ELSE LET h == H160_from_slice(buf)
         IN IF h.err # OK THEN h ELSE [err |-> OK, value |-> Address_new(h.value)]

Address_deserialize(buf) ==
    IF Len(buf) # H160_len_bytes
    THEN [err |-> AddressLengthIoError, value |-> <<>>]
    ELSE LET h == H160_from_slice(buf)
         IN IF h.err # OK THEN h ELSE [err |-> OK, value |-> Address_new(h.value)]

Address_try_from_slice(v) == Address_deserialize(v)

\* TryFrom<&[u8]>: every Err of try_from_slice becomes AddressLengthError.
Address_try_from(raw_addr) ==
    LET r == Address_try_from_slice(raw_addr)
    IN IF r.err \in {OK, H160Panic} THEN r
       ELSE [err |-> AddressLengthError, value |-> <<>>]

\* The bytes of the address of test_address_serializer.
TestAddressBytes ==
    <<9, 109, 233, 194, 184, 165, 184, 194, 44, 238, 50, 137, 177, 1, 246, 150,
      13, 104, 229, 30>>

\* Slices the decoder is given: of every length up to MaxSliceLen, all of one
\* byte value but for one position; and the test's address, also cut short
\* by a byte and extended by one.
ByteValues == {0, 9, 255}

Slices ==
    { [i \in 1 .. n |-> IF i = k THEN b ELSE c] :
        n \in 0 .. MaxSliceLen,
        k \in {1, H160_len_bytes, H160_len_bytes + 1},
        b \in ByteValues, c \in ByteValues }
    \cup { TestAddressBytes,
           SubSeq(TestAddressBytes, 1, H160_len_bytes - 1),
           TestAddressBytes \o <<0>> }

\* The addresses there are to serialize and encode: the decoded slices.
Addresses ==
    { Address_try_from_slice(v).value :
        v \in {w \in Slices : Address_try_from_slice(w).err = OK} }

(***************************************************************************)
(* The ledger (crate::fungible_token::FungibleToken).                      *)
(***************************************************************************)
FungibleToken_new ==
    [accounts |-> [a \in {} |-> 0],
     accounts_eth |-> [a \in EthAddresses |-> 0],
     total_supply |-> 0, total_supply_near |-> 0, total_supply_eth |-> 0]

FungibleToken_accounts_get(ft, account_id) ==
    IF account_id \in DOMAIN ft.accounts THEN ft.accounts[account_id] ELSE -1

FungibleToken_accounts_insert(ft, account_id, balance) ==
    [ft EXCEPT !.accounts =
        [a \in DOMAIN ft.accounts \cup {account_id} |->
            IF a = account_id THEN balance ELSE ft.accounts[a]]]

FungibleToken_internal_register_account(ft, account_id) ==
    FungibleToken_accounts_insert(ft, account_id, 0)

FungibleToken_balance_of(ft, account_id) ==
    IF account_id \in DOMAIN ft.accounts THEN ft.accounts[account_id] ELSE 0

FungibleToken_internal_deposit(ft, account_id, amount) ==
    IF \/ FungibleToken_balance_of(ft, account_id) + amount >= BalanceLimit
       \/ ft.total_supply + amount >= BalanceLimit
       \/ ft.total_supply_near + amount >= BalanceLimit
    THEN [err |-> "Overflow", ft |-> ft]
    ELSE [err |-> OK,
          ft |-> [FungibleToken_accounts_insert(
                      ft, account_id, FungibleToken_balance_of(ft, account_id) + amount)
                  EXCEPT !.total_supply = @ + amount,
                         !.total_supply_near = @ + amount]]

FungibleToken_internal_withdraw(ft, account_id, amount) ==
    IF amount > FungibleToken_balance_of(ft, account_id)
    THEN [err |-> "InsufficientBalance", ft |-> ft]
    ELSE [err |-> OK,
          ft |-> [(IF account_id \in DOMAIN ft.accounts
                   THEN FungibleToken_accounts_insert(
                            ft, account_id, ft.accounts[account_id] - amount)
                   ELSE ft)
                  EXCEPT !.total_supply = @ - amount,
                         !.total_supply_near = @ - amount]]

FungibleToken_internal_deposit_eth(ft, address, amount) ==
    IF \/ ft.accounts_eth[address] + amount >= BalanceLimit
       \/ ft.total_supply + amount >= BalanceLimit
       \/ ft.total_supply_eth + amount >= BalanceLimit
    THEN [err |-> "Overflow", ft |-> ft]
    ELSE [err |-> OK,
          ft |-> [ft EXCEPT !.accounts_eth[address] = @ + amount,
                            !.total_supply = @ + amount,
                            !.total_supply_eth = @ + amount]]

FungibleToken_internal_withdraw_eth(ft, address, amount) ==
    IF amount > ft.accounts_eth[address]
    THEN [err |-> "InsufficientBalance", ft |-> ft]
    ELSE [err |-> OK,
          ft |-> [ft EXCEPT !.accounts_eth[address] = @ - amount,
                            !.total_supply = @ - amount,
                            !.total_supply_eth = @ - amount]]

\* internal_transfer: the amount leaves the sender and reaches the receiver.
FungibleToken_internal_transfer(ft, sender_id, receiver_id, amount) ==
    LET taken == FungibleToken_internal_withdraw(ft, sender_id, amount)
        given == FungibleToken_internal_deposit(taken.ft, receiver_id, amount)
    IN IF sender_id = receiver_id
       THEN [err |-> "Sender and receiver should be different", ft |-> ft]
       ELSE IF ~(amount > 0)
       THEN [err |-> "The amount should be a positive number", ft |-> ft]
       ELSE IF taken.err # OK THEN [err |-> taken.err, ft |-> ft]
       ELSE IF given.err # OK THEN [err |-> given.err, ft |-> ft]
       ELSE given

\* ft_transfer: from the caller to the receiver.
FungibleToken_ft_transfer(ft, predecessor, receiver_id, amount) ==
    FungibleToken_internal_transfer(ft, predecessor, receiver_id, amount)

\* ft_resolve_transfer: of the amount the receiver did not use, what the
\* receiver still holds goes back to the sender, or is burnt when the sender's
\* account is gone.
FungibleToken_ft_resolve_transfer(ft, sender_id, receiver_id, amount, unused_amount) ==
    LET unused == IF unused_amount < amount THEN unused_amount ELSE amount
        held == FungibleToken_balance_of(ft, receiver_id)
        refund == IF unused < held THEN unused ELSE held
        taken == FungibleToken_accounts_insert(ft, receiver_id, held - refund)
    IN IF refund = 0 THEN [ft |-> ft, used |-> amount]
       ELSE IF sender_id \in DOMAIN ft.accounts
       THEN [ft |-> FungibleToken_accounts_insert(
                        taken, sender_id, taken.accounts[sender_id] + refund),
             used |-> amount - refund]
       ELSE [ft |-> [taken EXCEPT !.total_supply = @ - refund,
                                  !.total_supply_near = @ - refund],
             used |-> amount]

\* storage_deposit: the account is registered when it was not.
FungibleToken_storage_deposit(ft, account_id) ==
    IF account_id \in DOMAIN ft.accounts THEN ft
    ELSE FungibleToken_internal_register_account(ft, account_id)

\* storage_withdraw: a registered account has nothing above its minimum to withdraw.
FungibleToken_storage_withdraw(ft, predecessor, amount) ==
    IF predecessor \notin DOMAIN ft.accounts
    THEN [err |-> "The account is not registered", ft |-> ft]
    ELSE IF amount > 0
    THEN [err |-> "The amount is greater than the available storage balance", ft |-> ft]
    ELSE [err |-> OK, ft |-> ft]

FungibleToken_ft_total_supply(ft) == ft.total_supply
FungibleToken_ft_total_supply_near(ft) == ft.total_supply_near
FungibleToken_ft_total_supply_eth(ft) == ft.total_supply_eth

(***************************************************************************)
(* EthConnectorContract (src/src/connector.rs).  Every handler yields an   *)
(* outcome: the error it ended with (OK when it returned), and storage and *)
(* promises as the invocation left them.                                   *)
(***************************************************************************)
\* EthConnectorContract::new: the contract as read from storage.
new == [contract |-> storage[CONTRACT_NAME_KEY], ft |-> storage[CONTRACT_FT_KEY]]

\* save_contract writing the two contract values as all there is in storage.
save_contract_afresh(st, self) ==
    sdk_save_contract(
        sdk_save_contract([k \in {} |-> 0], CONTRACT_NAME_KEY, self.contract),
        CONTRACT_FT_KEY, self.ft)

save_contract(st, self) ==
    sdk_save_contract(
        sdk_save_contract(st, CONTRACT_NAME_KEY, self.contract),
        CONTRACT_FT_KEY, self.ft)

used_event_key(key) == <<"EthConnector", "used-event", key>>

save_used_event(st, key) == sdk_save_contract(st, used_event_key(key), 0)

check_used_event(st, key) == storage_has_key(st, used_event_key(key))

\* record_proof without the assertion on check_used_event.
record_proof_unchecked(st, key) == [err |-> OK, storage |-> save_used_event(st, key)]

record_proof(st, key) ==
    IF check_used_event(st, key)
    THEN [err |-> "ERR_PROOF_EXIST", storage |-> st]
    ELSE [err |-> OK, storage |-> save_used_event(st, key)]

mint_near(ft, owner_id, amount) ==
    LET ft1 == IF FungibleToken_accounts_get(ft, owner_id) = -1
               THEN FungibleToken_accounts_insert(ft, owner_id, 0)
               ELSE ft
    IN FungibleToken_internal_deposit(ft1, owner_id, amount)

mint_eth(ft, owner_id, amount) == FungibleToken_internal_deposit_eth(ft, owner_id, amount)

burn_near(ft, owner_id, amount) == FungibleToken_internal_withdraw(ft, owner_id, amount)

\* burn_eth taking the amount whatever the balance is.
burn_eth_unchecked(ft, address, amount) ==
    [err |-> OK,
     ft |-> [ft EXCEPT !.accounts_eth[address] = @ - amount,
                       !.total_supply = @ - amount,
                       !.total_supply_eth = @ - amount]]

burn_eth(ft, address, amount) == FungibleToken_internal_withdraw_eth(ft, address, amount)

\* init_contract without the assertion that the contract key is absent.
init_contract_again(args) ==
    IF validate_eth_address(args.eth_custodian_address) = "invalid"
    THEN [err |-> "ERR_WRONG_ADDRESS", storage |-> storage]
    ELSE LET ft == FungibleToken_internal_register_account(
                       FungibleToken_new, current_account_id)
             contract_data ==
                 [prover_account |-> args.prover_account,
                  eth_custodian_address |->
                      validate_eth_address(args.eth_custodian_address)]
         IN [err |-> OK,
             storage |-> save_contract(storage, [contract |-> contract_data, ft |-> ft])]

init_contract(args) ==
    IF storage_has_key(storage, CONTRACT_NAME_KEY)
    THEN [err |-> "ERR_CONTRACT_INITIALIZED", storage |-> storage]
    ELSE IF validate_eth_address(args.eth_custodian_address) = "invalid"
    THEN [err |-> "ERR_WRONG_ADDRESS", storage |-> storage]
    ELSE LET ft == FungibleToken_internal_register_account(
                       FungibleToken_new, current_account_id)
             contract_data ==
                 [prover_account |-> args.prover_account,
                  eth_custodian_address |->
                      validate_eth_address(args.eth_custodian_address)]
         IN [err |-> OK,
             storage |-> save_contract(storage, [contract |-> contract_data, ft |-> ft])]

\* parse_event_message without assert!(data.len() < 3).
parse_event_message_unguarded(message) ==
    LET data == split(message)
        none == [err |-> OK, kind |-> "none", account_id |-> "", contract |-> "",
                 address |-> "invalid"]
    IN IF Len(data) = 1
       THEN [none EXCEPT !.kind = "Near", !.account_id = text_of(data[1])]
       ELSE IF validate_eth_address(text_of(data[2])) = "invalid"
       THEN [none EXCEPT !.err = "ERR_WRONG_ADDRESS"]
       ELSE [none EXCEPT !.kind = "Eth", !.contract = text_of(data[1]),
                         !.address = validate_eth_address(text_of(data[2]))]

parse_event_message(message) ==
    LET data == split(message)
        none == [err |-> OK, kind |-> "none", account_id |-> "", contract |-> "",
                 address |-> "invalid"]
    IN IF ~(Len(data) < 3)
       THEN [none EXCEPT !.err = "assertion failed: data.len() < 3"]
       ELSE IF Len(data) = 1
       THEN [none EXCEPT !.kind = "Near", !.account_id = text_of(data[1])]
       ELSE IF validate_eth_address(text_of(data[2])) = "invalid"
       THEN [none EXCEPT !.err = "ERR_WRONG_ADDRESS"]
       ELSE [none EXCEPT !.kind = "Eth", !.contract = text_of(data[1]),
                         !.address = validate_eth_address(text_of(data[2]))]

\* sdk::promise_create of verify_log_entry at the prover: no callback yet.
promise_create(account_id, proof) ==
    [account_id |-> account_id, method |-> "verify_log_entry", proof |-> proof,
     callback |-> "none",
     data |-> [new_owner_id |-> "", amount |-> 0, fee |-> 0,
               relayer_eth_account |-> NoRelayer, proof |-> proof]]

\* sdk::promise_then: the callback on the contract itself, with its arguments.
promise_then(promise0, method, data) ==
    [promise0 EXCEPT !.callback = method, !.data = data]

\* deposit consulting and marking the replay guard before the proof is verified.
deposit_recording(deposit_data) ==
    LET self == new
        proof == deposit_data.proof
        event == from_log_entry_data(proof.log_entry_data)
        promise0 == promise_create(self.contract.prover_account, proof)
        issued == promises (+) SetToBag({promise0})
        target == parse_event_message(event.recipient)
        recorded == record_proof(storage, get_key(proof))
        fail(e, ps) == [err |-> e, storage |-> storage, promises |-> ps]
    IN IF event.eth_custodian_address # self.contract.eth_custodian_address
       THEN fail("ERR_WRONG_EVENT_ADDRESS", promises)
       ELSE IF ~(event.amount < event.fee)
       THEN fail("ERR_NOT_ENOUGH_BALANCE_FOR_FEE", promises)
       ELSE IF recorded.err # OK
       THEN fail(recorded.err, promises)
       ELSE IF target.err # OK
       THEN [err |-> target.err, storage |-> recorded.storage, promises |-> issued]
       ELSE IF target.kind = "Near"
       THEN [err |-> OK, storage |-> recorded.storage,
             promises |-> promises (+) SetToBag({
                 promise_then(promise0, "finish_deposit_near",
                     [new_owner_id |-> target.account_id, amount |-> event.amount,
                      fee |-> event.fee, relayer_eth_account |-> NoRelayer,
                      proof |-> proof])})]
       ELSE IF deposit_data.relayer_eth_account = NoRelayer
       THEN [err |-> "ERR_RELAYER_NOT_SET", storage |-> recorded.storage,
             promises |-> issued]
       ELSE [err |-> OK, storage |-> recorded.storage,
             promises |-> promises (+) SetToBag({
                 promise_then(promise0, "finish_deposit_eth",
                     [new_owner_id |-> target.address, amount |-> event.amount,
                      fee |-> event.fee,
                      relayer_eth_account |-> deposit_data.relayer_eth_account,
                      proof |-> proof])})]

\* deposit comparing the custodian addresses only after the verification
\* request has been created.
deposit_checking_late(deposit_data) ==
    LET self == new
        proof == deposit_data.proof
        event == from_log_entry_data(proof.log_entry_data)
        promise0 == promise_create(self.contract.prover_account, proof)
        issued == promises (+) SetToBag({promise0})
        target == parse_event_message(event.recipient)
        fail(e, ps) == [err |-> e, storage |-> storage, promises |-> ps]
    IN IF ~(event.amount < event.fee)
       THEN fail("ERR_NOT_ENOUGH_BALANCE_FOR_FEE", promises)
       ELSE IF event.eth_custodian_address # self.contract.eth_custodian_address
       THEN fail("ERR_WRONG_EVENT_ADDRESS", issued)
       ELSE IF target.err # OK
       THEN fail(target.err, issued)
       ELSE IF target.kind = "Near"
       THEN [err |-> OK, storage |-> storage,
             promises |-> promises (+) SetToBag({
                 promise_then(promise0, "finish_deposit_near",
                     [new_owner_id |-> target.account_id, amount |-> event.amount,
                      fee |-> event.fee, relayer_eth_account |-> NoRelayer,
                      proof |-> proof])})]
       ELSE IF deposit_data.relayer_eth_account = NoRelayer
       THEN fail("ERR_RELAYER_NOT_SET", issued)
       ELSE [err |-> OK, storage |-> storage,
             promises |-> promises (+) SetToBag({
                 promise_then(promise0, "finish_deposit_eth",
                     [new_owner_id |-> target.address, amount |-> event.amount,
                      fee |-> event.fee,
                      relayer_eth_account |-> deposit_data.relayer_eth_account,
                      proof |-> proof])})]

deposit(deposit_data) ==
    LET self == new
        proof == deposit_data.proof
        event == from_log_entry_data(proof.log_entry_data)
        promise0 == promise_create(self.contract.prover_account, proof)
        issued == promises (+) SetToBag({promise0})
        target == parse_event_message(event.recipient)
        fail(e, ps) == [err |-> e, storage |-> storage, promises |-> ps]
    IN IF event.eth_custodian_address # self.contract.eth_custodian_address
       THEN fail("ERR_WRONG_EVENT_ADDRESS", promises)
       ELSE IF ~(event.amount < event.fee)
       THEN fail("ERR_NOT_ENOUGH_BALANCE_FOR_FEE", promises)
       ELSE IF target.err # OK
       THEN fail(target.err, issued)
       ELSE IF target.kind = "Near"
       THEN [err |-> OK, storage |-> storage,
             promises |-> promises (+) SetToBag({
                 promise_then(promise0, "finish_deposit_near",
                     [new_owner_id |-> target.account_id, amount |-> event.amount,
                      fee |-> event.fee, relayer_eth_account |-> NoRelayer,
                      proof |-> proof])})]
       ELSE IF deposit_data.relayer_eth_account = NoRelayer
       THEN fail("ERR_RELAYER_NOT_SET", issued)
       ELSE [err |-> OK, storage |-> storage,
             promises |-> promises (+) SetToBag({
                 promise_then(promise0, "finish_deposit_eth",
                     [new_owner_id |-> target.address, amount |-> event.amount,
                      fee |-> event.fee,
                      relayer_eth_account |-> deposit_data.relayer_eth_account,
                      proof |-> proof])})]

\* promise_check without sdk::assert_private_call.
promise_check_any_caller(predecessor, promise_results) ==
    IF Len(promise_results) # 1 THEN "assertion failed: promise_results_count() == 1"
    ELSE IF promise_results[1].status # "Successful" THEN "ERR_PROMISE_INDEX"
    ELSE IF ~promise_results[1].value THEN "ERR_VERIFY_PROOF"
    ELSE OK

\* promise_check without assert!(verification_success).
promise_check_ignoring_verdict(predecessor, promise_results) ==
    IF ~assert_private_call(predecessor) THEN "ERR_PRIVATE_CALL"
    ELSE IF Len(promise_results) # 1 THEN "assertion failed: promise_results_count() == 1"
    ELSE IF promise_results[1].status # "Successful" THEN "ERR_PROMISE_INDEX"
    ELSE OK

\* The part finish_deposit_near and finish_deposit_eth share up to assert!(verification_success).
promise_check(predecessor, promise_results) ==
    IF ~assert_private_call(predecessor) THEN "ERR_PRIVATE_CALL"
    ELSE IF Len(promise_results) # 1 THEN "assertion failed: promise_results_count() == 1"
    ELSE IF promise_results[1].status # "Successful" THEN "ERR_PROMISE_INDEX"
    ELSE IF ~promise_results[1].value THEN "ERR_VERIFY_PROOF"
    ELSE OK

\* finish_deposit_near computing the mints before it records the proof.
finish_deposit_near_minting_first(predecessor, data, promise_results) ==
    LET self == new
        checked == promise_check(predecessor, promise_results)
        to_owner == sub_balance(data.amount, data.fee)
        mint1 == mint_near(self.ft, data.new_owner_id, to_owner.value)
        mint2 == mint_near(mint1.ft, predecessor, data.fee)
        recorded == record_proof(storage, get_key(data.proof))
    IN IF checked # OK THEN [err |-> checked, storage |-> storage]
       ELSE IF to_owner.err # OK THEN [err |-> to_owner.err, storage |-> storage]
       ELSE IF mint1.err # OK THEN [err |-> mint1.err, storage |-> storage]
       ELSE IF mint2.err # OK THEN [err |-> mint2.err, storage |-> storage]
       ELSE IF recorded.err # OK THEN [err |-> recorded.err, storage |-> recorded.storage]
       ELSE [err |-> OK,
             storage |-> save_contract(recorded.storage, [self EXCEPT !.ft = mint2.ft])]

finish_deposit_near(predecessor, data, promise_results) ==
    LET self == new
        checked == promise_check(predecessor, promise_results)
        recorded == record_proof(storage, get_key(data.proof))
        to_owner == sub_balance(data.amount, data.fee)
        mint1 == mint_near(self.ft, data.new_owner_id, to_owner.value)
        mint2 == mint_near(mint1.ft, predecessor, data.fee)
    IN IF checked # OK THEN [err |-> checked, storage |-> storage]
       ELSE IF recorded.err # OK THEN [err |-> recorded.err, storage |-> recorded.storage]
       ELSE IF to_owner.err # OK THEN [err |-> to_owner.err, storage |-> recorded.storage]
       ELSE IF mint1.err # OK THEN [err |-> mint1.err, storage |-> recorded.storage]
       ELSE IF mint2.err # OK THEN [err |-> mint2.err, storage |-> recorded.storage]
       ELSE [err |-> OK,
             storage |-> save_contract(recorded.storage, [self EXCEPT !.ft = mint2.ft])]

finish_deposit_eth(predecessor, data, promise_results) ==
    LET self == new
        checked == promise_check(predecessor, promise_results)
        recorded == record_proof(storage, get_key(data.proof))
        to_owner == sub_balance(data.amount, data.fee)
        mint1 == mint_eth(self.ft, data.new_owner_id, to_owner.value)
        mint2 == mint_eth(mint1.ft, data.relayer_eth_account, data.fee)
    IN IF checked # OK THEN [err |-> checked, storage |-> storage]
       ELSE IF recorded.err # OK THEN [err |-> recorded.err, storage |-> recorded.storage]
       ELSE IF to_owner.err # OK THEN [err |-> to_owner.err, storage |-> recorded.storage]
       ELSE IF mint1.err # OK THEN [err |-> mint1.err, storage |-> recorded.storage]
       ELSE IF mint2.err # OK THEN [err |-> mint2.err, storage |-> recorded.storage]
       ELSE [err |-> OK,
             storage |-> save_contract(recorded.storage, [self EXCEPT !.ft = mint2.ft])]

internal_deposit_eth(address, amount) ==
    LET self == new
        r == FungibleToken_internal_deposit_eth(self.ft, address, amount)
    IN IF r.err # OK THEN [err |-> r.err, storage |-> storage]
       ELSE [err |-> OK, storage |-> save_contract(storage, [self EXCEPT !.ft = r.ft])]

internal_remove_eth(address, amount) ==
    LET self == new
        r == FungibleToken_internal_withdraw_eth(self.ft, address, amount)
    IN IF r.err # OK THEN [err |-> r.err, storage |-> storage]
       ELSE [err |-> OK, storage |-> save_contract(storage, [self EXCEPT !.ft = r.ft])]

NoOutput == [recipient_id |-> "none", amount |-> 0, eth_custodian_address |-> "none"]

withdraw_near(predecessor, args) ==
    LET self == new
        recipient_address == validate_eth_address(args.recipient_id)
        res == [recipient_id |-> recipient_address, amount |-> args.amount,
                eth_custodian_address |-> self.contract.eth_custodian_address]
        burnt == burn_near(self.ft, predecessor, args.amount)
    IN IF recipient_address = "invalid"
       THEN [err |-> "ERR_WRONG_ADDRESS", storage |-> storage, output |-> NoOutput]
       ELSE IF burnt.err # OK
       THEN [err |-> burnt.err, storage |-> storage, output |-> NoOutput]
       ELSE [err |-> OK,
             storage |-> save_contract(storage, [self EXCEPT !.ft = burnt.ft]),
             output |-> res]

\* withdraw_eth handing sender and recipient to the signature check in each other's place.
withdraw_eth_swapped_check(args) ==
    LET self == new
        res == [recipient_id |-> args.eth_recipient, amount |-> args.amount,
                eth_custodian_address |-> self.contract.eth_custodian_address]
        burnt == burn_eth(self.ft, args.eth_recipient, args.amount)
    IN IF ~verify_withdraw_eip712(args.eth_recipient, args.sender,
                                  self.contract.eth_custodian_address, args.amount,
                                  args.eip712_signature)
       THEN [err |-> "ERR_WRONG_EIP712_MSG", storage |-> storage, output |-> NoOutput]
       ELSE IF burnt.err # OK
       THEN [err |-> burnt.err, storage |-> storage, output |-> NoOutput]
       ELSE [err |-> OK,
             storage |-> save_contract(storage, [self EXCEPT !.ft = burnt.ft]),
             output |-> res]

withdraw_eth(args) ==
    LET self == new
        res == [recipient_id |-> args.eth_recipient, amount |-> args.amount,
                eth_custodian_address |-> self.contract.eth_custodian_address]
        burnt == burn_eth(self.ft, args.eth_recipient, args.amount)
    IN IF ~verify_withdraw_eip712(args.sender, args.eth_recipient,
                                  self.contract.eth_custodian_address, args.amount,
                                  args.eip712_signature)
       THEN [err |-> "ERR_WRONG_EIP712_MSG", storage |-> storage, output |-> NoOutput]
       ELSE IF burnt.err # OK
       THEN [err |-> burnt.err, storage |-> storage, output |-> NoOutput]
       ELSE [err |-> OK,
             storage |-> save_contract(storage, [self EXCEPT !.ft = burnt.ft]),
             output |-> res]

\* ft_total_supply reading the host-namespace counter only.
ft_total_supply_of_near == FungibleToken_ft_total_supply_near(new.ft)

ft_total_supply == FungibleToken_ft_total_supply(new.ft)
ft_total_supply_near == FungibleToken_ft_total_supply_near(new.ft)
ft_total_supply_eth == FungibleToken_ft_total_supply_eth(new.ft)

ft_transfer(predecessor, args) ==
    LET self == new
        r == FungibleToken_ft_transfer(self.ft, predecessor, args.receiver_id, args.amount)
    IN IF r.err # OK THEN [err |-> r.err, storage |-> storage]
       ELSE [err |-> OK, storage |-> save_contract(storage, [self EXCEPT !.ft = r.ft])]

ft_resolve_transfer(predecessor, args, unused_amount) ==
    LET self == new
        r == FungibleToken_ft_resolve_transfer(
                 self.ft, args.sender_id, args.receiver_id, args.amount, unused_amount)
    IN IF ~assert_private_call(predecessor)
       THEN [err |-> "ERR_PRIVATE_CALL", storage |-> storage]
       ELSE [err |-> OK, storage |-> save_contract(storage, [self EXCEPT !.ft = r.ft])]

\* ft_transfer_call: the transfer is made on the contract as read and the
\* receiver's ft_on_transfer is called with ft_resolve_transfer as callback;
\* the handler does not save the contract.
ft_transfer_call(predecessor, args) ==
    LET self == new
        r == FungibleToken_internal_transfer(
                 self.ft, predecessor, args.receiver_id, args.amount)
    IN IF r.err # OK THEN [err |-> r.err, storage |-> storage, promises |-> promises]
       ELSE [err |-> OK, storage |-> storage,
             promises |-> promises (+) SetToBag({
                 [account_id |-> args.receiver_id, method |-> "ft_on_transfer",
                  proof |-> "none", callback |-> "ft_resolve_transfer",
                  data |-> [sender_id |-> predecessor, receiver_id |-> args.receiver_id,
                            amount |-> args.amount]]})]

storage_deposit(predecessor, args) ==
    LET self == new
        account_id == IF args.account_id = "none" THEN predecessor ELSE args.account_id
        ft == FungibleToken_storage_deposit(self.ft, account_id)
    IN [err |-> OK, storage |-> save_contract(storage, [self EXCEPT !.ft = ft])]

storage_withdraw(predecessor, args) ==
    LET self == new
        r == FungibleToken_storage_withdraw(self.ft, predecessor, args.amount)
    IN IF r.err # OK THEN [err |-> r.err, storage |-> storage]
       ELSE [err |-> OK, storage |-> save_contract(storage, [self EXCEPT !.ft = r.ft])]

(***************************************************************************)
(* The state machine: one action per invocation.                           *)
(***************************************************************************)
Initialized == storage_has_key(storage, CONTRACT_NAME_KEY)

\* The fingerprints that have a used-event marker in storage.
UsedKeys == {k \in Events : check_used_event(storage, k)}

PromiseResults ==
    { [status |-> "Successful", value |-> TRUE],
      [status |-> "Successful", value |-> FALSE],
      [status |-> "Failed", value |-> FALSE] }

InitArgs == [prover_account : ProverAccounts, eth_custodian_address : {"a1", "zz"}]

DepositArgs == [proof : Proofs, relayer_eth_account : {NoRelayer, "A2"}]

\* Arguments of a finalization called from outside: what a deposit would have
\* passed for a proof whose event names the host account or the address.
CalledNearArgs ==
    { [new_owner_id |-> "alice", amount |-> p.log_entry_data.amount,
       fee |-> p.log_entry_data.fee, relayer_eth_account |-> NoRelayer, proof |-> p] :
      p \in {q \in Proofs : /\ q.log_entry_data.recipient = <<"alice">>
                            /\ q.log_entry_data.eth_custodian_address = "A1"} }

CalledEthArgs ==
    { [new_owner_id |-> "A1", amount |-> p.log_entry_data.amount,
       fee |-> p.log_entry_data.fee, relayer_eth_account |-> "A2", proof |-> p] :
      p \in {q \in Proofs : /\ q.log_entry_data.recipient = <<"c", ":", "a1">>
                            /\ q.log_entry_data.eth_custodian_address = "A1"} }

\* Who calls a finalization directly, and the promise results the call then
\* sees: a transaction of the contract's own account sees none, a callback
\* another contract attached to its own promise sees that promise's result.
CalledResults(predecessor) ==
    IF predecessor = current_account_id
    THEN { <<>> }
    ELSE { <<[status |-> "Successful", value |-> TRUE]>> }

Signatures ==
    { [signer |-> s, message |-> withdraw_message(s, r, "A1", a)] :
      s \in EthAddresses, r \in EthAddresses, a \in Amounts }

WithdrawEthArgs ==
    [sender : EthAddresses, eth_recipient : EthAddresses, amount : Amounts,
     eip712_signature : Signatures]

WithdrawNearArgs == [recipient_id : {"a1", "zz"}, amount : Amounts]

Init ==
    /\ storage = [k \in {} |-> 0]
    /\ promises = EmptyBag
    /\ last = [op |-> "none", predecessor |-> "none", sender |-> "none", err |-> OK,
               results |-> <<>>, output |-> NoOutput]
    /\ overflow_checks \in BOOLEAN
    /\ codec = [op |-> "none", input |-> <<>>, out |-> [err |-> OK, value |-> <<>>]]

\* The last invocation as its caller saw it: the method, who called, the
\* sender a withdraw_eth request names, the promise results the call read, the
\* error or OK, and the returned output.
Called(op, predecessor, err, args, results, output) ==
    last' = [op |-> op, predecessor |-> predecessor,
             sender |-> IF op = "withdraw_eth" THEN args.sender ELSE "none",
             err |-> err, results |-> results, output |-> output]

InitContract ==
    \E args \in InitArgs :
        LET out == init_contract(args)
        IN /\ storage' = out.storage
           /\ Called("init_contract", current_account_id, out.err, args, <<>>, NoOutput)
           /\ UNCHANGED <<promises, overflow_checks, codec>>

Deposit ==
    /\ Initialized
    /\ BagCardinality(promises) + Cardinality(UsedKeys) < MaxDeposits
    /\ \E predecessor \in {"alice"}, args \in DepositArgs :
        LET out == deposit(args)
        IN /\ storage' = out.storage
           /\ promises' = out.promises
           /\ Called("deposit", predecessor, out.err, args, <<>>, NoOutput)
           /\ UNCHANGED <<overflow_checks, codec>>

\* The prover answered: the callback of a deposit runs with the result.
ResumeNear ==
    \E p \in BagToSet(promises), result \in PromiseResults :
        /\ p.callback = "finish_deposit_near"
        /\ LET out == finish_deposit_near(current_account_id, p.data, <<result>>)
           IN /\ storage' = out.storage
              /\ promises' = promises (-) SetToBag({p})
              /\ Called("finish_deposit_near", current_account_id, out.err, p.data,
                        <<result>>, NoOutput)
              /\ UNCHANGED <<overflow_checks, codec>>

ResumeEth ==
    \E p \in BagToSet(promises), result \in PromiseResults :
        /\ p.callback = "finish_deposit_eth"
        /\ LET out == finish_deposit_eth(current_account_id, p.data, <<result>>)
           IN /\ storage' = out.storage
              /\ promises' = promises (-) SetToBag({p})
              /\ Called("finish_deposit_eth", current_account_id, out.err, p.data,
                        <<result>>, NoOutput)
              /\ UNCHANGED <<overflow_checks, codec>>

\* The prover answered a verification request that has no callback attached.
ResolveDetached ==
    \E p \in BagToSet(promises) :
        /\ p.callback = "none"
        /\ promises' = promises (-) SetToBag({p})
        /\ UNCHANGED <<storage, last, overflow_checks, codec>>

CallFinishDepositNear ==
    /\ Initialized
    /\ \E predecessor \in {current_account_id, "alice"}, data \in CalledNearArgs :
        \E results \in CalledResults(predecessor) :
            LET out == finish_deposit_near(predecessor, data, results)
            IN /\ storage' = out.storage
               /\ Called("finish_deposit_near", predecessor, out.err, data, results,
                         NoOutput)
               /\ UNCHANGED <<promises, overflow_checks, codec>>

CallFinishDepositEth ==
    /\ Initialized
    /\ \E predecessor \in {current_account_id, "alice"}, data \in CalledEthArgs :
        \E results \in CalledResults(predecessor) :
            LET out == finish_deposit_eth(predecessor, data, results)
            IN /\ storage' = out.storage
               /\ Called("finish_deposit_eth", predecessor, out.err, data, results,
                         NoOutput)
               /\ UNCHANGED <<promises, overflow_checks, codec>>

InternalDepositEth ==
    /\ Initialized
    /\ \E address \in EthAddresses, amount \in Amounts :
        LET out == internal_deposit_eth(address, amount)
        IN /\ storage' = out.storage
           /\ Called("internal_deposit_eth", current_account_id, out.err,
                     [address |-> address, amount |-> amount], <<>>, NoOutput)
           /\ UNCHANGED <<promises, overflow_checks, codec>>

InternalRemoveEth ==
    /\ Initialized
    /\ \E address \in EthAddresses, amount \in Amounts :
        LET out == internal_remove_eth(address, amount)
        IN /\ storage' = out.storage
           /\ Called("internal_remove_eth", current_account_id, out.err,
                     [address |-> address, amount |-> amount], <<>>, NoOutput)
           /\ UNCHANGED <<promises, overflow_checks, codec>>

WithdrawNear ==
    /\ Initialized
    /\ \E predecessor \in AccountIds, args \in WithdrawNearArgs :
        LET out == withdraw_near(predecessor, args)
        IN /\ storage' = out.storage
           /\ Called("withdraw_near", predecessor, out.err, args, <<>>, out.output)
           /\ UNCHANGED <<promises, overflow_checks, codec>>

WithdrawEth ==
    /\ Initialized
    /\ \E predecessor \in {"alice"}, args \in WithdrawEthArgs :
        LET out == withdraw_eth(args)
        IN /\ storage' = out.storage
           /\ Called("withdraw_eth", predecessor, out.err, args, <<>>, out.output)
           /\ UNCHANGED <<promises, overflow_checks, codec>>

TransferArgs == [receiver_id : AccountIds, amount : Amounts]

ResolveTransferArgs == [sender_id : {"alice"}, receiver_id : {current_account_id},
                        amount : Amounts]

StorageDepositArgs == [account_id : {"none", "alice"}]

StorageWithdrawArgs == [amount : Amounts]

FtTransfer ==
    /\ Initialized
    /\ \E predecessor \in {"alice"}, args \in TransferArgs :
        LET out == ft_transfer(predecessor, args)
        IN /\ storage' = out.storage
           /\ Called("ft_transfer", predecessor, out.err, args, <<>>, NoOutput)
           /\ UNCHANGED <<promises, overflow_checks, codec>>

FtTransferCall ==
    /\ Initialized
    /\ \E predecessor \in {"alice"}, args \in TransferArgs :
        LET out == ft_transfer_call(predecessor, args)
        IN /\ storage' = out.storage
           /\ promises' = out.promises
           /\ Called("ft_transfer_call", predecessor, out.err, args, <<>>, NoOutput)
           /\ UNCHANGED <<overflow_checks, codec>>

\* ft_resolve_transfer as anyone may call it, with the amount the receiver
\* reported unused.
FtResolveTransfer ==
    /\ Initialized
    /\ \E predecessor \in AccountIds, args \in ResolveTransferArgs,
          unused_amount \in Amounts :
        LET out == ft_resolve_transfer(predecessor, args, unused_amount)
        IN /\ storage' = out.storage
           /\ Called("ft_resolve_transfer", predecessor, out.err, args, <<>>, NoOutput)
           /\ UNCHANGED <<promises, overflow_checks, codec>>

StorageDeposit ==
    /\ Initialized
    /\ \E predecessor \in {"alice"}, args \in StorageDepositArgs :
        LET out == storage_deposit(predecessor, args)
        IN /\ storage' = out.storage
           /\ Called("storage_deposit", predecessor, out.err, args, <<>>, NoOutput)
           /\ UNCHANGED <<promises, overflow_checks, codec>>

StorageWithdraw ==
    /\ Initialized
    /\ \E predecessor \in {"alice"}, args \in StorageWithdrawArgs :
        LET out == storage_withdraw(predecessor, args)
        IN /\ storage' = out.storage
           /\ Called("storage_withdraw", predecessor, out.err, args, <<>>, NoOutput)
           /\ UNCHANGED <<promises, overflow_checks, codec>>

Next ==
    \/ InitContract
    \/ Deposit
    \/ ResumeNear
    \/ ResumeEth
    \/ ResolveDetached
    \/ CallFinishDepositNear
    \/ CallFinishDepositEth
    \/ InternalDepositEth
    \/ InternalRemoveEth
    \/ WithdrawNear
    \/ WithdrawEth
    \/ FtTransfer
    \/ FtTransferCall
    \/ FtResolveTransfer
    \/ StorageDeposit
    \/ StorageWithdraw

Spec == Init /\ [][Next]_vars

\* The deposit side alone: initialization, deposits and finalizations.
NextDeposit ==
    \/ InitContract
    \/ Deposit
    \/ ResumeNear
    \/ ResumeEth
    \/ ResolveDetached
    \/ CallFinishDepositNear
    \/ CallFinishDepositEth

SpecDeposit == Init /\ [][NextDeposit]_vars

\* Deposits as they are submitted and resumed by the host: initialization,
\* deposit calls and the callbacks of their verification requests.
NextSubmit ==
    \/ InitContract
    \/ Deposit
    \/ ResumeNear
    \/ ResumeEth
    \/ ResolveDetached

SpecSubmit == Init /\ [][NextSubmit]_vars

\* The ledger side alone: initialization, the engine's mints and burns of
\* origin-namespace balances, and withdrawals.
NextLedger ==
    \/ InitContract
    \/ InternalDepositEth
    \/ InternalRemoveEth
    \/ WithdrawNear
    \/ WithdrawEth

SpecLedger == Init /\ [][NextLedger]_vars

\* The address type alone: a slice is decoded, an address is serialized or
\* encoded, and codec holds the call and what it gave.
Decoded(op, input, out) == codec' = [op |-> op, input |-> input, out |-> out]

TryFromSlice ==
    \E v \in Slices :
        /\ Decoded("try_from_slice", v, Address_try_from_slice(v))
        /\ UNCHANGED <<storage, promises, last, overflow_checks>>

TryFrom ==
    \E raw_addr \in Slices :
        /\ Decoded("try_from", raw_addr, Address_try_from(raw_addr))
        /\ UNCHANGED <<storage, promises, last, overflow_checks>>

Serialize ==
    \E a \in Addresses :
        /\ Decoded("serialize", a, Address_serialize(a))
        /\ UNCHANGED <<storage, promises, last, overflow_checks>>

Encode ==
    \E a \in Addresses :
        /\ Decoded("encode", a, [err |-> OK, value |-> Address_encode(a)])
        /\ UNCHANGED <<storage, promises, last, overflow_checks>>

NextAddress ==
    \/ TryFromSlice
    \/ TryFrom
    \/ Serialize
    \/ Encode

SpecAddress == Init /\ [][NextAddress]_vars

(***************************************************************************)
(* Properties.  A property over "every call" is stated on the handlers: in *)
(* every reachable state, for every input of the sets below, the outcome   *)
(* of the handler from that state is as claimed.                           *)
(***************************************************************************)
Verified == [status |-> "Successful", value |-> TRUE]

\* Zero, one or two promise results, as a finalization may find them.
AllResults ==
    {<<>>} \cup {<<r>> : r \in PromiseResults}
           \cup {<<r1, r2>> : r1 \in PromiseResults, r2 \in PromiseResults}

\* Finalization arguments: those of the pending callbacks and those a caller makes up.
NearArgs ==
    CalledNearArgs \cup
        {p.data : p \in {q \in BagToSet(promises) : q.callback = "finish_deposit_near"}}

EthArgs ==
    CalledEthArgs \cup
        {p.data : p \in {q \in BagToSet(promises) : q.callback = "finish_deposit_eth"}}

\* The persisted ledger.
Ledger == storage[CONTRACT_FT_KEY]

RECURSIVE SumOf(_, _)
SumOf(f, keys) ==
    IF keys = {} THEN 0
    ELSE LET k == CHOOSE x \in keys : TRUE IN f[k] + SumOf(f, keys \ {k})

\* C1: a finalization for a fingerprint that is already recorded never
\* succeeds and leaves storage (balances included) as it was, and with the
\* caller and the verification result in order it fails with ERR_PROOF_EXIST;
\* a finalization that succeeds marks its fingerprint, which was not marked
\* before, so no fingerprint funds a second mint.
C1_ExactlyOnce ==
    Initialized =>
        /\ \A predecessor \in AccountIds, data \in NearArgs, results \in AllResults :
            LET out == finish_deposit_near(predecessor, data, results)
                key == get_key(data.proof)
            IN /\ key \in UsedKeys =>
                    /\ out.err # OK
                    /\ out.storage = storage
                    /\ (predecessor = current_account_id /\ results = <<Verified>>)
                            => out.err = "ERR_PROOF_EXIST"
               /\ out.err = OK =>
                    /\ key \notin UsedKeys
                    /\ check_used_event(out.storage, key)
        /\ \A predecessor \in AccountIds, data \in EthArgs, results \in AllResults :
            LET out == finish_deposit_eth(predecessor, data, results)
                key == get_key(data.proof)
            IN /\ key \in UsedKeys =>
                    /\ out.err # OK
                    /\ out.storage = storage
                    /\ (predecessor = current_account_id /\ results = <<Verified>>)
                            => out.err = "ERR_PROOF_EXIST"
               /\ out.err = OK =>
                    /\ key \notin UsedKeys
                    /\ check_used_event(out.storage, key)

\* C1 witness: a callback ran with the verification successful for a
\* fingerprint already recorded, and ended with ERR_PROOF_EXIST.
C1_Witness ==
    /\ last.op \in {"finish_deposit_near", "finish_deposit_eth"}
    /\ last.results = <<Verified>>
    /\ last.err = "ERR_PROOF_EXIST"
    /\ UsedKeys # {}

\* C2: in every persisted state the total supply is the sum of the
\* host-namespace balances plus the sum of the origin-namespace balances, and
\* no balance is negative.
C2_SupplyConservation ==
    Initialized =>
        /\ ft_total_supply =
               SumOf(Ledger.accounts, DOMAIN Ledger.accounts)
               + SumOf(Ledger.accounts_eth, DOMAIN Ledger.accounts_eth)
        /\ \A a \in DOMAIN Ledger.accounts : Ledger.accounts[a] >= 0
        /\ \A a \in DOMAIN Ledger.accounts_eth : Ledger.accounts_eth[a] >= 0

\* C2 witness: a withdrawal has burnt from a supply that mints built up, and
\* supply remains.
C2_Witness ==
    /\ last.op = "withdraw_eth"
    /\ last.err = OK
    /\ last.output.amount > 0
    /\ ft_total_supply > 0

\* C3: the deposit call, whatever its arguments and however it ends, leaves
\* storage (ledger, configuration, used-proof markers) exactly as it found it.
C3_DepositWritesNothing ==
    Initialized => \A args \in DepositArgs : deposit(args).storage = storage

\* C3 witness: a deposit call returned and its verification is pending with
\* the finalization callback attached.
C3_Witness ==
    /\ last.op = "deposit"
    /\ last.err = OK
    /\ \E p \in BagToSet(promises) : p.callback # "none"

\* C4: a finalization called by anyone but the contract itself ends with the
\* private-call error and leaves storage as it was, whatever the arguments and
\* the promise results.
C4_PrivateCallOnly ==
    Initialized =>
        \A predecessor \in AccountIds \ {current_account_id}, results \in AllResults :
            /\ \A data \in NearArgs :
                finish_deposit_near(predecessor, data, results)
                    = [err |-> "ERR_PRIVATE_CALL", storage |-> storage]
            /\ \A data \in EthArgs :
                finish_deposit_eth(predecessor, data, results)
                    = [err |-> "ERR_PRIVATE_CALL", storage |-> storage]

\* C4 witness: another account called a finalization with one successful,
\* true promise result and was rejected.
C4_Witness ==
    /\ last.op \in {"finish_deposit_near", "finish_deposit_eth"}
    /\ last.predecessor # current_account_id
    /\ last.results = <<Verified>>
    /\ last.err = "ERR_PRIVATE_CALL"

\* The configuration as persisted.
Config == storage[CONTRACT_NAME_KEY]

\* C5: a deposit to the host identity alice with the configured custodian and
\* fee <= amount is accepted with its finish_deposit_near callback attached,
\* and when that callback runs with the verification successful (the proof not
\* used before, the balances far from the limit) alice gains amount - fee, the
\* caller of the finalization gains fee and the total supply grows by amount.
C5_HostDepositEndToEnd ==
    Initialized =>
        \A args \in DepositArgs :
            LET event == args.proof.log_entry_data
                out == deposit(args)
            IN (/\ event.recipient = <<"alice">>
                /\ event.eth_custodian_address = Config.eth_custodian_address
                /\ event.fee <= event.amount)
               => /\ out.err = OK
                  /\ \E p \in BagToSet(out.promises) :
                        /\ p.callback = "finish_deposit_near"
                        /\ p.data.proof = args.proof
                        /\ (/\ get_key(args.proof) \notin UsedKeys
                            /\ Ledger.total_supply + event.amount < BalanceLimit)
                           => LET fin == finish_deposit_near(
                                             current_account_id, p.data, <<Verified>>)
                                  after == fin.storage[CONTRACT_FT_KEY]
                              IN /\ fin.err = OK
                                 /\ FungibleToken_balance_of(after, "alice")
                                      = FungibleToken_balance_of(Ledger, "alice")
                                        + event.amount - event.fee
                                 /\ FungibleToken_balance_of(after, current_account_id)
                                      = FungibleToken_balance_of(Ledger, current_account_id)
                                        + event.fee
                                 /\ after.total_supply = Ledger.total_supply + event.amount

\* C6: with the custodian matching, a deposit whose fee exceeds its amount
\* ends with the fee error and no promise created, and a deposit whose fee
\* does not exceed its amount does not end with the fee error.
C6_FeeBoundCheck ==
    Initialized =>
        \A args \in DepositArgs :
            LET event == args.proof.log_entry_data
                out == deposit(args)
            IN event.eth_custodian_address = Config.eth_custodian_address
               => /\ event.fee > event.amount
                     => /\ out.err = "ERR_NOT_ENOUGH_BALANCE_FOR_FEE"
                        /\ out.promises = promises
                  /\ event.fee <= event.amount
                     => out.err # "ERR_NOT_ENOUGH_BALANCE_FOR_FEE"

\* Withdrawal requests with signatures over any custodian address.
AnySignatures ==
    { [signer |-> s, message |-> withdraw_message(m, r, c, a)] :
      s \in EthAddresses, m \in EthAddresses, r \in EthAddresses,
      c \in EthAddresses, a \in Amounts }

AnyWithdrawEthArgs ==
    [sender : EthAddresses, eth_recipient : EthAddresses, amount : Amounts,
     eip712_signature : AnySignatures]

\* C7: when withdraw_eth succeeds, the origin-namespace balance of the sender
\* (the signer) is lower by the amount and every other balance is as before.
C7_BurnFromSigner ==
    [][(last'.op = "withdraw_eth" /\ last'.err = OK)
       => /\ storage'[CONTRACT_FT_KEY].accounts_eth[last'.sender]
                = Ledger.accounts_eth[last'.sender] - last'.output.amount
          /\ \A a \in EthAddresses \ {last'.sender} :
                storage'[CONTRACT_FT_KEY].accounts_eth[a] = Ledger.accounts_eth[a]
          /\ storage'[CONTRACT_FT_KEY].accounts = Ledger.accounts]_vars

\* C8: a withdrawal succeeds only with an amount the balance of its source
\* key covers (the caller's for withdraw_near, the signer's for withdraw_eth),
\* and a withdrawal that fails returns no receipt and leaves storage as it was.
C8_NoOverdraw ==
    [][/\ (last'.op = "withdraw_near" /\ last'.err = OK)
          => last'.output.amount <= FungibleToken_balance_of(Ledger, last'.predecessor)
       /\ (last'.op = "withdraw_eth" /\ last'.err = OK)
          => last'.output.amount <= Ledger.accounts_eth[last'.sender]
       /\ (last'.op \in {"withdraw_near", "withdraw_eth"} /\ last'.err # OK)
          => (last'.output = NoOutput /\ storage' = storage)]_vars

\* C9: withdraw_eth goes past the signature check only with a signature made
\* by sender over (sender, recipient, configured custodian, amount); any other
\* request ends with ERR_WRONG_EIP712_MSG, no receipt and storage as it was.
C9_SignatureOverCanonicalMessage ==
    Initialized =>
        \A args \in AnyWithdrawEthArgs :
            LET out == withdraw_eth(args)
                sig == args.eip712_signature
                canonical ==
                    /\ sig.signer = args.sender
                    /\ sig.message.sender = args.sender
                    /\ sig.message.eth_recipient = args.eth_recipient
                    /\ sig.message.eth_custodian_address = Config.eth_custodian_address
                    /\ sig.message.amount = args.amount
            IN /\ ~canonical
                  => out = [err |-> "ERR_WRONG_EIP712_MSG", storage |-> storage,
                            output |-> NoOutput]
               /\ canonical => out.err # "ERR_WRONG_EIP712_MSG"

\* C9 witness: withdraw_eth ended with ERR_WRONG_EIP712_MSG in a state where a
\* request signed by its sender for another amount or another recipient is so
\* rejected although the balance it would burn covers the requested amount.
C9_Witness ==
    /\ last.op = "withdraw_eth"
    /\ last.err = "ERR_WRONG_EIP712_MSG"
    /\ \E args \in WithdrawEthArgs :
        /\ args.eip712_signature.signer = args.sender
        /\ \/ args.eip712_signature.message.amount # args.amount
           \/ args.eip712_signature.message.eth_recipient # args.eth_recipient
        /\ args.amount > 0
        /\ Ledger.accounts_eth[args.eth_recipient] >= args.amount
        /\ Ledger.accounts_eth[args.sender] >= args.amount
        /\ withdraw_eth(args).err = "ERR_WRONG_EIP712_MSG"

\* C10: an invocation that ends with an error has written nothing: storage
\* holds neither a used-proof marker nor a mint of the failed invocation.
C10_InvocationAtomic == [][last'.err # OK => storage' = storage]_vars

\* Recipient messages of every shape: empty, without a delimiter, with one
\* (before an address text, before a text that is no address, before
\* nothing) and with two.
AnyMessages ==
    Messages \cup
        { <<>>, <<":">>, <<"c", ":">>, <<":", "a2">>, <<"c", ":", "zz">>,
          <<":", ":">>, <<"c", ":", ":", "a1">>, <<"alice", ":", ":">> }

Delimiters(message) == Cardinality({i \in 1 .. Len(message) : message[i] = ":"})

\* Deposit calls over the messages of every shape.
AnyDepositArgs ==
    { [proof |-> [log_entry_data |->
                     [eth_custodian_address |-> c, recipient |-> m,
                      amount |-> a, fee |-> f]],
       relayer_eth_account |-> r] :
      c \in EthAddresses, m \in AnyMessages, a \in Amounts, f \in Amounts,
      r \in {NoRelayer, "A2"} }

\* The callbacks a deposit outcome attached: the promises with a callback
\* that the outcome holds in more copies than there were before the call.
Scheduled(out) ==
    {p \in BagToSet(out.promises) :
        p.callback # "none" /\ CopiesIn(p, out.promises) > CopiesIn(p, promises)}

\* C11: a recipient message without a delimiter resolves to the host account
\* named by the whole message; a message with one delimiter resolves to the
\* origin address its right part decodes to, with the left part as contract
\* tag (and to nothing when the right part is no address); a message with
\* more delimiters is rejected, and a deposit carrying it ends with an error
\* and attaches no finalization.  A deposit that returns attaches exactly the
\* finalization of the resolved target.
C11_RecipientResolution ==
    Initialized =>
        /\ \A m \in AnyMessages :
            LET target == parse_event_message(m)
                i == CHOOSE j \in 1 .. Len(m) : m[j] = ":"
                left == text_of(SubSeq(m, 1, i - 1))
                right == text_of(SubSeq(m, i + 1, Len(m)))
            IN /\ Delimiters(m) = 0 =>
                    /\ target.err = OK
                    /\ target.kind = "Near"
                    /\ target.account_id = text_of(m)
               /\ (Delimiters(m) = 1 /\ validate_eth_address(right) # "invalid") =>
                    /\ target.err = OK
                    /\ target.kind = "Eth"
                    /\ target.contract = left
                    /\ target.address = validate_eth_address(right)
               /\ (Delimiters(m) = 1 /\ validate_eth_address(right) = "invalid") =>
                    /\ target.err = "ERR_WRONG_ADDRESS"
                    /\ target.kind = "none"
               /\ Delimiters(m) > 1 =>
                    /\ target.err # OK
                    /\ target.kind = "none"
        /\ \A args \in {a \in AnyDepositArgs :
                            a.proof.log_entry_data.eth_custodian_address
                                = Config.eth_custodian_address} :
            LET m == args.proof.log_entry_data.recipient
                target == parse_event_message(m)
                out == deposit(args)
            IN /\ Delimiters(m) > 1 => (out.err # OK /\ Scheduled(out) = {})
               /\ out.err # OK => Scheduled(out) = {}
               /\ out.err = OK =>
                    \E p \in Scheduled(out) :
                        /\ Scheduled(out) = {p}
                        /\ target.kind = "Near" =>
                              /\ p.callback = "finish_deposit_near"
                              /\ p.data.new_owner_id = target.account_id
                        /\ target.kind = "Eth" =>
                              /\ p.callback = "finish_deposit_eth"
                              /\ p.data.new_owner_id = target.address

\* C11 witness: a deposit whose message has two delimiters was rejected by
\* the resolver, after the verification request and with no callback on it.
C11_Witness ==
    /\ last.op = "deposit"
    /\ last.err = "assertion failed: data.len() < 3"
    /\ \E p \in BagToSet(promises) : p.callback = "none"

\* The value of a hex digit, lower-case digits only.
HexValue(ch) == CHOOSE v \in 0 .. 15 : HexChars[v + 1] = ch

LowerHexDigits ==
    {"0", "1", "2", "3", "4", "5", "6", "7", "8", "9", "a", "b", "c", "d", "e", "f"}

C13_ReplayGuardMonotonic ==
    [][\A key \in Events :
          check_used_event(storage, key) => check_used_event(storage', key)]_vars

\* C13 witness: with a fingerprint recorded, an invocation that is no
\* finalization has saved the contract, and the fingerprint is still recorded.
C13_Witness ==
    /\ UsedKeys # {}
    /\ last.op \in {"withdraw_eth", "internal_deposit_eth", "storage_deposit",
                    "ft_resolve_transfer"}
    /\ last.err = OK
    /\ \A key \in UsedKeys : record_proof(storage, key).err = "ERR_PROOF_EXIST"

\* Initialization arguments naming any verifier and any custodian text.
AnyInitArgs ==
    [prover_account : ProverAccounts \cup {"alice"},
     eth_custodian_address : {"a1", "a2", "zz"}]

\* C14: once the contract is initialized it stays so, every step leaves the
\* persisted verifier identity and custodian address as they were, and
\* init_contract, whatever its arguments, ends with ERR_CONTRACT_INITIALIZED
\* and storage unchanged.
C14_ConfigImmutable ==
    [][Initialized =>
          /\ storage_has_key(storage', CONTRACT_NAME_KEY)
          /\ storage'[CONTRACT_NAME_KEY] = Config
          /\ last'.op = "init_contract" =>
                (last'.err = "ERR_CONTRACT_INITIALIZED" /\ storage' = storage)
          /\ \A args \in AnyInitArgs :
                init_contract(args)
                    = [err |-> "ERR_CONTRACT_INITIALIZED", storage |-> storage]]_vars

\* C14 witness: a second init_contract was rejected after deposits were
\* recorded and balances minted, and the configuration is that of the first.
C14_Witness ==
    /\ last.op = "init_contract"
    /\ last.err = "ERR_CONTRACT_INITIALIZED"
    /\ UsedKeys # {}
    /\ ft_total_supply > 0
    /\ Config = [prover_account |-> "prover", eth_custodian_address |-> "A1"]

\* The promises that carry a deposit: verification requests, with or without
\* the finalization attached.
DepositPromises == {p \in BagToSet(promises) : p.method = "verify_log_entry"}

\* C15: a deposit whose event names another custodian address than the
\* configured one ends with ERR_WRONG_EVENT_ADDRESS with no promise created
\* and storage unchanged; and every verification request and finalization
\* there is carries a proof whose event names the configured custodian, so
\* no finalization, hence no mint, comes from such a deposit.
C15_CustodianCheck ==
    Initialized =>
        /\ \A args \in AnyDepositArgs :
            args.proof.log_entry_data.eth_custodian_address
                    # Config.eth_custodian_address
                => deposit(args) = [err |-> "ERR_WRONG_EVENT_ADDRESS",
                                    storage |-> storage, promises |-> promises]
        /\ \A p \in DepositPromises :
            p.proof.log_entry_data.eth_custodian_address = Config.eth_custodian_address

\* C15 witness: a deposit was rejected for its custodian address while
\* another deposit, of the configured custodian, is pending.
C15_Witness ==
    /\ last.op = "deposit"
    /\ last.err = "ERR_WRONG_EVENT_ADDRESS"
    /\ \E p \in DepositPromises : p.callback # "none"

\* The account that submits the deposit calls.
Invoker == "alice"

FoundResults ==
    {<<>>, <<Verified, Verified>>} \cup {<<r>> : r \in PromiseResults}

\* The error a resumption ends with for promise results that are not one
\* successful, true result.
ResultError(results) ==
    IF Len(results) # 1 THEN "assertion failed: promise_results_count() == 1"
    ELSE IF results[1].status # "Successful" THEN "ERR_PROMISE_INDEX"
    ELSE "ERR_VERIFY_PROOF"

\* What C17 asks of the outcome of a resumption for a fingerprint.
ResumptionAsClaimed(out, key, results) ==
    IF results # <<Verified>>
    THEN /\ out.err = ResultError(results)
         /\ out.storage = storage
         /\ key \notin UsedKeys => record_proof(out.storage, key).err = OK
    ELSE /\ out.err \notin {ResultError(<<>>), "ERR_PROMISE_INDEX", "ERR_VERIFY_PROOF",
                            "ERR_PRIVATE_CALL"}
         /\ check_used_event(out.storage, key)
         /\ key \in UsedKeys => out.err = "ERR_PROOF_EXIST"

OrderAsClaimed(out, predecessor, key, results) ==
    IF predecessor # current_account_id
    THEN out = [err |-> "ERR_PRIVATE_CALL", storage |-> storage]
    ELSE IF results # <<Verified>>
    THEN out = [err |-> ResultError(results), storage |-> storage]
    ELSE IF key \in UsedKeys
    THEN out = [err |-> "ERR_PROOF_EXIST", storage |-> storage]
    ELSE IF out.err # OK
    THEN /\ out.err \in {"Overflow", "attempt to subtract with overflow"}
         /\ out.storage = save_used_event(storage, key)
    ELSE /\ check_used_event(out.storage, key)
         /\ out.storage[CONTRACT_NAME_KEY] = Config
         /\ \A k \in DOMAIN storage :
                k # CONTRACT_FT_KEY => out.storage[k] = storage[k]

\* C18: a finalization is decided by the caller check first, then by the
\* check of the promise result, then by the replay guard, then by the mints:
\* an outcome of an earlier check leaves storage as it was whatever the later
\* ones would have given, a mint that fails finds the fingerprint already
\* recorded, and the ledger in storage differs only when the finalization
\* returned, the fingerprint being recorded with it.
C18_FinalizationOrder ==
    Initialized =>
        \A predecessor \in AccountIds, results \in FoundResults :
            /\ \A data \in NearArgs :
                LET out == finish_deposit_near(predecessor, data, results)
                IN /\ OrderAsClaimed(out, predecessor, get_key(data.proof), results)
                   /\ out.storage[CONTRACT_FT_KEY] # Ledger => out.err = OK
            /\ \A data \in EthArgs :
                LET out == finish_deposit_eth(predecessor, data, results)
                IN /\ OrderAsClaimed(out, predecessor, get_key(data.proof), results)
                   /\ out.storage[CONTRACT_FT_KEY] # Ledger => out.err = OK

\* C18 witness: the callback of a deposit passed the checks and recorded the
\* fingerprint, and a mint after that failed: the marker is in storage and
\* the ledger holds nothing.
C18_Witness ==
    /\ last.op \in {"finish_deposit_near", "finish_deposit_eth"}
    /\ last.results = <<Verified>>
    /\ last.err \in {"Overflow", "attempt to subtract with overflow"}
    /\ UsedKeys # {}
    /\ ft_total_supply = 0

\* C19: when two deposit calls with the same proof are pending and the
\* callback of one runs with the verification successful, then the first of
\* the two to run (the fingerprint not yet recorded) returns, records the
\* fingerprint and raises the total supply by the amount of the deposit, and
\* the second (the fingerprint recorded) ends with ERR_PROOF_EXIST and leaves
\* storage as it was.
C19_ConcurrentDuplicates ==
    [][\A p \in DepositPromises :
          (/\ p.callback # "none"
           /\ storage_has_key(storage, CONTRACT_NAME_KEY)
           /\ CopiesIn(p, promises) = 2 \/ get_key(p.proof) \in UsedKeys
           /\ promises' = promises (-) SetToBag({p})
           /\ last'.op = p.callback
           /\ last'.results = <<Verified>>)
          => IF get_key(p.proof) \in UsedKeys
             THEN last'.err = "ERR_PROOF_EXIST" /\ storage' = storage
             ELSE /\ last'.err = OK
                  /\ check_used_event(storage', get_key(p.proof))
                  /\ storage'[CONTRACT_FT_KEY].total_supply
                        = Ledger.total_supply + p.data.amount]_vars

\* C20: in a finalization that has passed its checks, the amount the
\* recipient's mint is called with is the difference amount - fee as a number
\* (never the difference taken modulo the width of a balance), so with
\* fee > amount no mint to the recipient is made at all and the finalization
\* fails leaving the ledger as it was; and a mint whose amount would take a
\* balance or the total supply to the limit fails with Overflow.
C20_NoWrapAround ==
    Initialized =>
        /\ \A data \in NearArgs :
            LET to_owner == sub_balance(data.amount, data.fee)
                mint1 == mint_near(Ledger, data.new_owner_id, to_owner.value)
                fin == finish_deposit_near(current_account_id, data, <<Verified>>)
            IN /\ to_owner.err = OK => to_owner.value = data.amount - data.fee
               /\ data.fee > data.amount =>
                    /\ fin.err # OK
                    /\ fin.storage[CONTRACT_FT_KEY] = Ledger
                    /\ ~(to_owner.err = OK /\ mint1.err = OK)
               /\ Ledger.total_supply + to_owner.value >= BalanceLimit =>
                    mint1 = [err |-> "Overflow", ft |-> mint1.ft]
        /\ \A data \in EthArgs :
            LET to_owner == sub_balance(data.amount, data.fee)
                mint1 == mint_eth(Ledger, data.new_owner_id, to_owner.value)
                fin == finish_deposit_eth(current_account_id, data, <<Verified>>)
            IN /\ to_owner.err = OK => to_owner.value = data.amount - data.fee
               /\ data.fee > data.amount =>
                    /\ fin.err # OK
                    /\ fin.storage[CONTRACT_FT_KEY] = Ledger
                    /\ ~(to_owner.err = OK /\ mint1.err = OK)
               /\ Ledger.total_supply + to_owner.value >= BalanceLimit =>
                    mint1 = [err |-> "Overflow", ft |-> mint1.ft]

\* C21: a deposit to an origin address that names no relayer, its custodian
\* being the configured one, ends with an error of one of the checks up to the
\* relayer's; and a deposit call that ended with ERR_RELAYER_NOT_SET has left
\* the promises and storage as they were: no verification request and no
\* finalization is issued by it.
C21_RelayerRequired ==
    [][/\ storage_has_key(storage, CONTRACT_NAME_KEY) =>
            \A args \in DepositArgs :
                (/\ parse_event_message(args.proof.log_entry_data.recipient).kind = "Eth"
                 /\ args.relayer_eth_account = NoRelayer
                 /\ args.proof.log_entry_data.eth_custodian_address
                        = Config.eth_custodian_address)
                => deposit(args).err
                       \in {"ERR_RELAYER_NOT_SET", "ERR_NOT_ENOUGH_BALANCE_FOR_FEE"}
       /\ (last'.op = "deposit" /\ last'.err = "ERR_RELAYER_NOT_SET")
            => (promises' = promises /\ storage' = storage)]_vars

\* The request of the withdrawal that was made last, as it is submitted again.
LastWithdrawEthArgs ==
    [sender |-> last.sender, eth_recipient |-> last.output.recipient_id,
     amount |-> last.output.amount,
     eip712_signature |->
         [signer |-> last.sender,
          message |-> withdraw_message(last.sender, last.output.recipient_id,
                                       last.output.eth_custodian_address,
                                       last.output.amount)]]

LastWithdrawNearArgs ==
    [recipient_id |-> CHOOSE text \in {"a1", "a2"} :
                          validate_eth_address(text) = last.output.recipient_id,
     amount |-> last.output.amount]

\* C22: after a withdrawal has succeeded, the same request submitted again
\* (for withdraw_eth with the same signature) is rejected, with no receipt and
\* storage unchanged, exactly when what is left on the key the withdrawal
\* burns from is less than the amount; otherwise it burns the amount again
\* and returns the same receipt again.
C22_WithdrawalResubmission ==
    /\ (last.op = "withdraw_eth" /\ last.err = OK) =>
        LET args == LastWithdrawEthArgs
            again == withdraw_eth(args)
            left == Ledger.accounts_eth[args.eth_recipient]
        IN IF left < args.amount
           THEN again = [err |-> "InsufficientBalance", storage |-> storage,
                         output |-> NoOutput]
           ELSE /\ again.err = OK
                /\ again.output = last.output
                /\ again.storage[CONTRACT_FT_KEY].accounts_eth[args.eth_recipient]
                      = left - args.amount
                /\ again.storage[CONTRACT_FT_KEY].total_supply
                      = Ledger.total_supply - args.amount
    /\ (last.op = "withdraw_near" /\ last.err = OK) =>
        LET args == LastWithdrawNearArgs
            again == withdraw_near(last.predecessor, args)
            left == FungibleToken_balance_of(Ledger, last.predecessor)
        IN IF left < args.amount
           THEN again = [err |-> "InsufficientBalance", storage |-> storage,
                         output |-> NoOutput]
           ELSE /\ again.err = OK
                /\ again.output = last.output
                /\ FungibleToken_balance_of(again.storage[CONTRACT_FT_KEY],
                                            last.predecessor) = left - args.amount

\* C22 witness: a withdraw_eth of a positive amount succeeded and the key it
\* burnt from still covers the amount, so that the same request, submitted
\* again, burns once more.
C22_Witness ==
    /\ last.op = "withdraw_eth"
    /\ last.err = OK
    /\ last.output.amount > 0
    /\ Ledger.accounts_eth[last.output.recipient_id] >= last.output.amount
    /\ withdraw_eth(LastWithdrawEthArgs).err = OK

====
